---- MODULE Spec2Model ----
(***************************************************************************)
(* A model of the tensor_parallel factory (factory.py) and of the          *)
(* Hugging Face adapter TensorParallelPreTrainedModel                      *)
(* (tensor_parallel_pretrained_model.py).                                  *)
(*                                                                         *)
(* One action is one call made by the user of the library: a call of the   *)
(* factory, or a call of a method on the adapter the factory returned.     *)
(* The state keeps what the call could observe or change: the runtime      *)
(* environment (process group, CUDA devices), the object the caller holds, *)
(* and, for the last call, its arguments, the collaborator calls it made   *)
(* in order, and how it ended.                                             *)
(***************************************************************************)
EXTENDS Integers, Sequences, FiniteSets, TLC

VARIABLES
    env,      \* runtime: torch.distributed world size (0 = no group), CUDA device count
    held,     \* the object the caller holds: result of the last factory call, or None
    op,       \* the last call: its name and arguments
    out,      \* how the last call ended: branch taken, returned / raised, return value
    calls     \* collaborator calls made by the last call, in program order

vars == <<env, held, op, out, calls>>

-----------------------------------------------------------------------------
(* Bounds of the model *)

MaxDevices == 2     \* longest device_ids list a caller passes; most CUDA devices present
MaxWorld == 2       \* largest process-group world size; largest num_parts of a Config

-----------------------------------------------------------------------------
(* Python values *)

PyNone == [cls |-> "NoneType"]

Tri == {"None", "True", "False"}       \* Optional[bool]

\* `if x:` / `not x` on an Optional[bool]
Truthy(x) == x = "True"

\* A device as the caller may pass it: a str or a torch.device
StrDevice(name) == [py |-> "str", name |-> name]
TorchDeviceObj(name) == [py |-> "torch.device", name |-> name]

\* torch.device(x): a str is parsed into a torch.device, a torch.device is kept
torch_device(x) == TorchDeviceObj(x.name)

DeviceArgs == {StrDevice("cpu"), TorchDeviceObj("cuda:0")}

RECURSIVE SeqsUpTo(_, _)
SeqsUpTo(S, n) ==
    IF n = 0 THEN {<<>>}
    ELSE LET shorter == SeqsUpTo(S, n - 1)
         IN shorter \cup {Append(s, x) : s \in {t \in shorter : Len(t) = n - 1}, x \in S}

\* Optional[Sequence[device]]
NoDeviceIds == [none |-> TRUE, ids |-> <<>>]
DeviceIdsArgs ==
    {NoDeviceIds} \cup {[none |-> FALSE, ids |-> s] : s \in SeqsUpTo(DeviceArgs, MaxDevices)}

\* Optional[Config]
NoConfig == [origin |-> "None", num_parts |-> 0]
CustomConfig(n) == [origin |-> "custom", num_parts |-> n]
ConfigArgs == {NoConfig} \cup {CustomConfig(n) : n \in 1..MaxWorld}

\* **kwargs of the factory
NoKwargs == [output_device |-> PyNone]
KwargsArgs == {NoKwargs, [output_device |-> TorchDeviceObj("cpu")]}

\* sharded_param_names
ParamNamesArgs == {"None", "names"}

\* The modules of the tests: an nn.Sequential and a pretrained transformers model
ModuleArgs ==
    {[cls |-> c, trainable |-> t, hf_config |-> IF c = "PreTrainedModel" THEN "hf_config" ELSE "absent"] :
        c \in {"Sequential", "PreTrainedModel"}, t \in BOOLEAN}

-----------------------------------------------------------------------------
(* Classes *)

Base(cls) ==
    CASE cls = "TensorParallelPreTrainedModel" -> "PreTrainedModel"
      [] cls = "PreTrainedModel" -> "nn.Module"
      [] cls = "Sequential" -> "nn.Module"
      [] cls = "TensorParallel" -> "nn.Module"
      [] cls = "Sharded" -> "nn.Module"
      [] cls = "DistributedShard" -> "nn.Module"
      [] OTHER -> "object"

RECURSIVE MRO(_)
MRO(cls) == IF cls = "object" THEN <<"object">> ELSE <<cls>> \o MRO(Base(cls))

IsInstance(obj, cls) == \E i \in 1..Len(MRO(obj.cls)) : MRO(obj.cls)[i] = cls

-----------------------------------------------------------------------------
(* The runtime the factory queries *)

\* torch.distributed.is_initialized()
is_initialized(e) == e.world_size > 0

\* torch.cuda.is_available()
cuda_is_available(e) == e.cuda_count > 0

\* range(n) as the sequence 0, 1, ..., n-1
Range(n) == [i \in 1..n |-> i - 1]

-----------------------------------------------------------------------------
(* How a call ends *)

Raised(branch, exc, msg, cs) ==
    [branch |-> branch, status |-> "raised", exc |-> exc, msg |-> msg, ret |-> PyNone, calls |-> cs]

Returned(branch, ret, cs) ==
    [branch |-> branch, status |-> "returned", exc |-> "none", msg |-> "", ret |-> ret, calls |-> cs]

-----------------------------------------------------------------------------
(* Collaborators of the factory: Config, TensorParallel, Sharded *)

\* Config.get_default_config(module, device_ids): a Config built for len(device_ids) parts
get_default_config(module, device_ids) ==
    [origin |-> "default", num_parts |-> Len(device_ids)]

\* make_distributed_shard, mutated: the world size is not validated
make_distributed_shard_unchecked(config, e, module, device, kwargs) ==
    IF ~is_initialized(e)
    THEN [status |-> "raised", exc |-> "RuntimeError", msg |-> "Default process group has not been initialized", ret |-> PyNone]
    ELSE [status |-> "returned", exc |-> "none", msg |-> "",
          ret |-> [cls |-> "DistributedShard", module |-> module, device |-> device,
                   config |-> config, kwargs |-> kwargs]]

\* config.make_distributed_shard(module, device, **kwargs): validates the process
\* group against the Config, then builds this process's shard
make_distributed_shard(config, e, module, device, kwargs) ==
    IF ~is_initialized(e)
    THEN [status |-> "raised", exc |-> "RuntimeError", msg |-> "Default process group has not been initialized", ret |-> PyNone]
    ELSE IF e.world_size # config.num_parts
    THEN [status |-> "raised", exc |-> "ConfigError", msg |-> "world_size != num_parts", ret |-> PyNone]
    ELSE [status |-> "returned", exc |-> "none", msg |-> "",
          ret |-> [cls |-> "DistributedShard", module |-> module, device |-> device,
                   config |-> config, kwargs |-> kwargs]]

\* Number of shards of a TensorParallel: one per device, at least one
NumShards(e, device_ids) ==
    LET n == IF device_ids.none THEN e.cuda_count ELSE Len(device_ids.ids)
    IN IF n < 1 THEN 1 ELSE n

\* TensorParallel(module, device_ids, output_device, output_device_index, config)
TensorParallelInit(e, module, device_ids, output_device, output_device_index, config) ==
    [cls |-> "TensorParallel", module |-> module, device_ids |-> device_ids,
     output_device |-> output_device, output_device_index |-> output_device_index,
     config |-> config,
     module_shards |-> [i \in 1..NumShards(e, device_ids) |-> [cls |-> module.cls, index |-> i - 1]]]

\* Sharded(module, sharded_param_names): the overlay wraps, it is not a TensorParallel
ShardedInit(module, sharded_param_names) ==
    [cls |-> "Sharded", module |-> module, sharded_param_names |-> sharded_param_names]

\* obj.module_shards: the overlay exposes the shards of the module it wraps
ModuleShards(obj) ==
    IF obj.cls = "Sharded" THEN obj.module.module_shards ELSE obj.module_shards

-----------------------------------------------------------------------------
(* TensorParallelPreTrainedModel.__init__ *)

AdapterInit(e, module, device_ids, config, kwargs) ==
    [cls |-> "TensorParallelPreTrainedModel",
     hf_config |-> module.hf_config,
     tensor_parallel |-> TensorParallelInit(e, module, device_ids, kwargs.output_device, PyNone, config)]

-----------------------------------------------------------------------------
(* The factory: tensor_parallel(module, device_ids, config, distributed,   *)
(* sharded, sharded_param_names, **kwargs)                                 *)

\* line 50, mutated: an explicit False does not override an initialized process group
SelectDistributedIgnoringFalse(e, distributed) == Truthy(distributed) \/ is_initialized(e)

\* line 50: an explicit value wins, None falls back to the process group
SelectDistributed(e, distributed) ==
    IF distributed # "None" THEN Truthy(distributed) ELSE is_initialized(e)

\* lines 52-53: the single current device
DefaultDistributedDeviceIds(e) ==
    <<TorchDeviceObj(IF cuda_is_available(e) THEN "cuda" ELSE "cpu")>>

\* lines 56-58, mutated: the default Config is inferred even when one was supplied
DistributedConfigAlwaysInferred(e, module, config) == get_default_config(module, Range(e.world_size))

\* lines 56-58: the Config handed to make_distributed_shard
DistributedConfig(e, module, config) ==
    IF config.origin = "None" THEN get_default_config(module, Range(e.world_size)) ELSE config

\* lines 56-58: collaborator calls made while settling the Config
DistributedConfigCalls(e, module, config) ==
    IF config.origin = "None"
    THEN <<[fn |-> "get_world_size"],
           [fn |-> "Config.get_default_config", module |-> module, device_ids |-> Range(e.world_size)],
           [fn |-> "logger.info"]>>
    ELSE <<>>

\* line 54, mutated: any non-empty device list is accepted
SingleDeviceAtLeastOne(ids) == Len(ids) >= 1

\* line 54: assert len(device_ids) == 1
SingleDevice(ids) == Len(ids) = 1

\* line 55, mutated: the overlay is not rejected
ShardedAllowedAnyway(sharded) == TRUE

\* line 55: assert not sharded
ShardedAllowed(sharded) == ~Truthy(sharded)

\* lines 51-60
DistributedBranch(e, module, device_ids, config, sharded, kwargs) ==
    LET ids == IF device_ids.none THEN DefaultDistributedDeviceIds(e) ELSE device_ids.ids
    IN  IF ~SingleDevice(ids)
        THEN Raised("distributed", "AssertionError",
                    "if distributed=True, please specify a single (current) device", <<>>)
        ELSE IF ~ShardedAllowed(sharded)
        THEN Raised("distributed", "AssertionError",
                    "distributed + sharded mode is not implemented, please keep one", <<>>)
        ELSE IF config.origin = "None" /\ ~is_initialized(e)
        THEN Raised("distributed", "RuntimeError",
                    "Default process group has not been initialized", <<[fn |-> "get_world_size"]>>)
        ELSE LET cfg == DistributedConfig(e, module, config)
                 dev == torch_device(ids[1])
                 cs == Append(DistributedConfigCalls(e, module, config),
                              [fn |-> "Config.make_distributed_shard", config |-> cfg,
                               module |-> module, device |-> dev, kwargs |-> kwargs])
                 r == make_distributed_shard(cfg, e, module, dev, kwargs)
             IN  IF r.status = "raised"
                 THEN Raised("distributed", r.exc, r.msg, cs)
                 ELSE Returned("distributed", r.ret, cs)

\* lines 62-65: sharded defaults to "the module has trainable parameters"
EffectiveSharded(module, sharded) ==
    IF sharded = "None" THEN module.trainable ELSE Truthy(sharded)

\* lines 66-69, mutated: the overlay is put around the adapter itself
WrapPreTrainedOutside(e, module, device_ids, config, sh, sharded_param_names, kwargs) ==
    LET adapter == AdapterInit(e, module, device_ids, config, kwargs)
    IN  IF sh THEN ShardedInit(adapter, sharded_param_names) ELSE adapter

\* lines 66-69: a PreTrainedModel gets the adapter; the overlay goes inside it
WrapPreTrained(e, module, device_ids, config, sh, sharded_param_names, kwargs) ==
    LET adapter == AdapterInit(e, module, device_ids, config, kwargs)
    IN  IF sh
        THEN [adapter EXCEPT !.tensor_parallel = ShardedInit(adapter.tensor_parallel, sharded_param_names)]
        ELSE adapter

\* lines 70-73: any other module gets a TensorParallel; the overlay goes around it
WrapModule(e, module, device_ids, config, sh, sharded_param_names, kwargs) ==
    LET tp == TensorParallelInit(e, module, device_ids, kwargs.output_device, PyNone, config)
    IN  IF sh THEN ShardedInit(tp, sharded_param_names) ELSE tp

\* lines 61-74
ThreadedBranch(e, module, device_ids, config, sharded, sharded_param_names, kwargs) ==
    LET sh == EffectiveSharded(module, sharded)
        warn == IF sharded = "None" /\ sh THEN <<[fn |-> "logger.warning"]>> ELSE <<>>
        ctor == IF IsInstance(module, "PreTrainedModel")
                THEN "TensorParallelPreTrainedModel" ELSE "TensorParallel"
        built == <<[fn |-> ctor, module |-> module, device_ids |-> device_ids,
                    config |-> config, kwargs |-> kwargs]>>
        over == IF sh THEN <<[fn |-> "Sharded", sharded_param_names |-> sharded_param_names]>> ELSE <<>>
        ret == IF IsInstance(module, "PreTrainedModel")
               THEN WrapPreTrained(e, module, device_ids, config, sh, sharded_param_names, kwargs)
               ELSE WrapModule(e, module, device_ids, config, sh, sharded_param_names, kwargs)
    IN  Returned("threaded", ret, warn \o built \o over)

\* lines 17-74
tensor_parallel(e, module, device_ids, config, distributed, sharded, sharded_param_names, kwargs) ==
    IF SelectDistributed(e, distributed)
    THEN DistributedBranch(e, module, device_ids, config, sharded, kwargs)
    ELSE ThreadedBranch(e, module, device_ids, config, sharded, sharded_param_names, kwargs)


-----------------------------------------------------------------------------
(* The adapter: TensorParallelPreTrainedModel *)

\* Methods each class of the adapter's hierarchy defines, as far as the sources use them
ClassMethods(cls) ==
    CASE cls = "TensorParallelPreTrainedModel" ->
            {"__init__", "forward", "_validate_model_class", "_validate_model_kwargs",
             "prepare_inputs_for_generation", "_reorder_cache"}
      [] cls = "PreTrainedModel" -> {"__init__", "from_pretrained"}
      [] cls = "nn.Module" -> {"parameters", "float", "to"}
      [] OTHER -> {}

\* line 18, mutated: the adapter class inherits from nothing
AdapterMRONoBase == <<"TensorParallelPreTrainedModel", "object">>

\* The classes searched, in order, for an attribute of an adapter instance
AdapterMRO == MRO("TensorParallelPreTrainedModel")

\* Python attribute lookup: the first class of the MRO that defines the name
Resolve(mro, name) ==
    LET hits == {i \in 1..Len(mro) : name \in ClassMethods(mro[i])}
    IN  IF hits = {} THEN "none"
        ELSE mro[CHOOSE i \in hits : \A j \in hits : i <= j]

\* Calling a method the adapter class itself does not define
call_inherited(self, name) ==
    LET impl == Resolve(AdapterMRO, name)
    IN  IF impl = "none"
        THEN Raised("adapter", "AttributeError", name, <<>>)
        ELSE Returned("adapter", [cls |-> "InheritedResult", impl |-> impl, method |-> name], <<>>)

\* What a shard's own method returns: opaque, but tied to the shard, method and arguments
ShardResult(shard, method, args) ==
    [cls |-> "ShardResult", shard |-> shard.index, method |-> method, args |-> args]

\* A shard's _reorder_cache: selects the beams of past named by beam_idx
ReorderPast(past, beam_idx) == [i \in 1..Len(beam_idx) |-> past[beam_idx[i] + 1]]

\* Delegation of one call to one shard; the shard's method may raise
Delegate(shard, method, args, shard_raises) ==
    LET c == [fn |-> method, shard |-> shard.index, args |-> args]
    IN  IF shard_raises
        THEN Raised("adapter", "ShardError", method, <<c>>)
        ELSE Returned("adapter", ShardResult(shard, method, args), <<c>>)

\* lines 30-31
forward(self, args) ==
    Returned("adapter", [cls |-> "ForwardResult", of |-> self.tensor_parallel.cls, args |-> args],
             <<[fn |-> "tensor_parallel.__call__", args |-> args]>>)

\* lines 33-34
validate_model_class(self, shard_raises) ==
    Delegate(ModuleShards(self.tensor_parallel)[1], "_validate_model_class", <<>>, shard_raises)

\* lines 36-37
validate_model_kwargs(self, model_kwargs, shard_raises) ==
    Delegate(ModuleShards(self.tensor_parallel)[1], "_validate_model_kwargs", <<model_kwargs>>, shard_raises)

\* lines 39-40, mutated: delegated to the last shard
prepare_inputs_on_last_shard(self, args, shard_raises) ==
    LET shards == ModuleShards(self.tensor_parallel)
    IN  Delegate(shards[Len(shards)], "prepare_inputs_for_generation", args, shard_raises)

\* lines 39-40
prepare_inputs_for_generation(self, args, shard_raises) ==
    Delegate(ModuleShards(self.tensor_parallel)[1], "prepare_inputs_for_generation", args, shard_raises)

\* line 44, mutated: each shard is handed the previous shard's result
ReorderArgsChained(shards, k, past, beam_idx) ==
    [past |-> IF k = 1 THEN past ELSE ReorderPast(past, beam_idx), beam_idx |-> beam_idx]

\* line 44, for the k-th shard of the loop: the arguments it is called with
ReorderArgs(shards, k, past, beam_idx) == [past |-> past, beam_idx |-> beam_idx]

\* line 43: the shards the loop visits, in order
ReorderOrder(shards) == [k \in 1..Len(shards) |-> k]

\* lines 42-44: the loop stops at the first shard that raises (raise_at; 0 = none does);
\* nothing is returned
reorder_cache(self, past, beam_idx, raise_at) ==
    LET shards == ModuleShards(self.tensor_parallel)
        order == ReorderOrder(shards)
        last == IF raise_at \in 1..Len(order) THEN raise_at ELSE Len(order)
        cs == [k \in 1..last |->
                 LET a == ReorderArgs(shards, order[k], past, beam_idx)
                 IN  [fn |-> "_reorder_cache", shard |-> shards[order[k]].index,
                      past |-> a.past, beam_idx |-> a.beam_idx,
                      result |-> ReorderPast(a.past, a.beam_idx)]]
    IN  IF raise_at \in 1..Len(order)
        THEN Raised("adapter", "ShardError", "_reorder_cache", cs)
        ELSE Returned("adapter", PyNone, cs)

-----------------------------------------------------------------------------
(* Arguments of the adapter's methods *)

ModelKwargsArgs == {"model_kwargs_a", "model_kwargs_b"}
PrepareArgs == {<<"input_ids">>, <<"input_ids", "past">>}
ForwardArgs == {<<"input_ids">>}
PastArgs == {<<"kv_beam0", "kv_beam1">>}
BeamIdxArgs == [1..2 -> 0..1]
InheritedNames == {"from_pretrained", "parameters", "float", "to", "no_such_method"}

-----------------------------------------------------------------------------
(* State machine *)

EnvStates == [world_size : 0..MaxWorld, cuda_count : 0..MaxDevices]

NoOp == [name |-> "none"]

Init ==
    /\ env \in EnvStates
    /\ held = PyNone
    /\ op = NoOp
    /\ out = Returned("none", PyNone, <<>>)
    /\ calls = <<>>

Finish(o, r) ==
    /\ op' = o
    /\ out' = [branch |-> r.branch, status |-> r.status, exc |-> r.exc, msg |-> r.msg, ret |-> r.ret]
    /\ calls' = r.calls

\* model = tensor_parallel(module, ...): the caller holds the result, or nothing on failure.
\* The factory reads nothing but its arguments and the runtime, so a run wraps once:
\* a second wrap would only repeat the successors of the initial state.
TensorParallelCall ==
    /\ op = NoOp
    /\ \E module \in ModuleArgs, device_ids \in DeviceIdsArgs, config \in ConfigArgs,
       distributed \in Tri, sharded \in Tri, names \in ParamNamesArgs, kwargs \in KwargsArgs :
        LET r == tensor_parallel(env, module, device_ids, config, distributed, sharded, names, kwargs)
        IN  /\ Finish([name |-> "tensor_parallel", module |-> module, device_ids |-> device_ids,
                       config |-> config, distributed |-> distributed, sharded |-> sharded,
                       sharded_param_names |-> names, kwargs |-> kwargs], r)
            /\ held' = r.ret
            /\ UNCHANGED env

HoldsAdapter == held.cls = "TensorParallelPreTrainedModel"

Forward ==
    /\ HoldsAdapter
    /\ \E args \in ForwardArgs :
        Finish([name |-> "forward", args |-> args], forward(held, args))
    /\ UNCHANGED <<env, held>>

ValidateModelClass ==
    /\ HoldsAdapter
    /\ \E raises \in BOOLEAN :
        Finish([name |-> "_validate_model_class", args |-> <<>>], validate_model_class(held, raises))
    /\ UNCHANGED <<env, held>>

ValidateModelKwargs ==
    /\ HoldsAdapter
    /\ \E mk \in ModelKwargsArgs, raises \in BOOLEAN :
        Finish([name |-> "_validate_model_kwargs", args |-> <<mk>>], validate_model_kwargs(held, mk, raises))
    /\ UNCHANGED <<env, held>>

PrepareInputsForGeneration ==
    /\ HoldsAdapter
    /\ \E args \in PrepareArgs, raises \in BOOLEAN :
        Finish([name |-> "prepare_inputs_for_generation", args |-> args],
               prepare_inputs_for_generation(held, args, raises))
    /\ UNCHANGED <<env, held>>

ReorderCache ==
    /\ HoldsAdapter
    /\ \E past \in PastArgs, beam_idx \in BeamIdxArgs,
          raise_at \in 0..Len(ModuleShards(held.tensor_parallel)) :
        Finish([name |-> "_reorder_cache", past |-> past, beam_idx |-> beam_idx, raise_at |-> raise_at],
               reorder_cache(held, past, beam_idx, raise_at))
    /\ UNCHANGED <<env, held>>

CallInherited ==
    /\ HoldsAdapter
    /\ \E name \in InheritedNames :
        Finish([name |-> name, args |-> <<>>], call_inherited(held, name))
    /\ UNCHANGED <<env, held>>

Next ==
    \/ TensorParallelCall
    \/ Forward
    \/ ValidateModelClass
    \/ ValidateModelKwargs
    \/ PrepareInputsForGeneration
    \/ ReorderCache
    \/ CallInherited

Spec == Init /\ [][Next]_vars


-----------------------------------------------------------------------------
(* Properties *)

IsFactoryCall == op.name = "tensor_parallel"

\* Process-Parallel mode as the documentation states it: distributed=True, or
\* distributed left unspecified while a process group is initialized
WantsDistributed ==
    IsFactoryCall /\ (op.distributed = "True" \/ (op.distributed = "None" /\ env.world_size > 0))

WantsThreaded == IsFactoryCall /\ ~WantsDistributed

Called(fn) == \E i \in 1..Len(calls) : calls[i].fn = fn

CallsOf(fn) == {i \in 1..Len(calls) : calls[i].fn = fn}

\* The overlay is applied: sharded=True, or unspecified with trainable parameters
WantsSharded == op.sharded = "True" \/ (op.sharded = "None" /\ op.module.trainable)

\* The device the process is on when device_ids is omitted
CurrentDevice == TorchDeviceObj(IF env.cuda_count > 0 THEN "cuda" ELSE "cpu")

NothingBuilt ==
    /\ ~Called("Config.get_default_config")
    /\ ~Called("Config.make_distributed_shard")
    /\ held = PyNone

(* C1 as stated: in Process-Parallel mode with sharded=True the call fails with a
   ConfigError, before any config is inferred or any shard is built. *)
C1_AsStated ==
    (WantsDistributed /\ op.sharded = "True") =>
        /\ out.status = "raised"
        /\ out.exc = "ConfigError"
        /\ NothingBuilt

(* C1 amended: in Process-Parallel mode with sharded=True the call fails with an
   AssertionError (a failed assert statement), before any config is inferred or any
   shard is built. *)
C1_ShardedDistributedFailsFast ==
    (WantsDistributed /\ op.sharded = "True") =>
        /\ out.status = "raised"
        /\ out.exc = "AssertionError"
        /\ NothingBuilt

C1_Witness ==
    /\ WantsDistributed
    /\ op.sharded = "True"
    /\ Len(op.device_ids.ids) = 1
    /\ out.exc = "AssertionError"
    /\ out.msg = "distributed + sharded mode is not implemented, please keep one"

(* C2 as stated: in Process-Parallel mode a device_ids list whose length is not 1
   fails with a ConfigError and returns no module; with device_ids omitted exactly
   one device, the current one, is used. *)
C2_AsStated ==
    /\ (WantsDistributed /\ ~op.device_ids.none /\ Len(op.device_ids.ids) # 1) =>
            (out.status = "raised" /\ out.exc = "ConfigError" /\ held = PyNone)
    /\ (WantsDistributed /\ op.device_ids.none) =>
            /\ out.msg # "if distributed=True, please specify a single (current) device"
            /\ \A i \in CallsOf("Config.make_distributed_shard") : calls[i].device = CurrentDevice
            /\ out.status = "returned" => out.ret.device = CurrentDevice

(* C2 amended: in Process-Parallel mode a device_ids list whose length is not 1
   fails with an AssertionError (a failed assert statement) and returns no module;
   with device_ids omitted exactly one device, the current one, is used. *)
C2_SingleDeviceRequired ==
    /\ (WantsDistributed /\ ~op.device_ids.none /\ Len(op.device_ids.ids) # 1) =>
            /\ out.status = "raised"
            /\ out.exc = "AssertionError"
            /\ held = PyNone
            /\ ~Called("Config.make_distributed_shard")
    /\ (WantsDistributed /\ op.device_ids.none) =>
            /\ out.msg # "if distributed=True, please specify a single (current) device"
            /\ \A i \in CallsOf("Config.make_distributed_shard") : calls[i].device = CurrentDevice
            /\ out.status = "returned" => out.ret.device = CurrentDevice

C2_Witness ==
    /\ WantsDistributed
    /\ ~op.device_ids.none
    /\ Len(op.device_ids.ids) = 2
    /\ op.sharded # "True"
    /\ out.exc = "AssertionError"
    /\ held = PyNone

(* C3: in Process-Parallel mode with a process group established, constructing the
   shard for a Config whose num_parts differs from the world size fails with a
   ConfigError and yields no module, for an inferred and for a supplied Config; a
   shard that is returned was built for num_parts = world size. *)
C3_WorldSizeValidated ==
    (WantsDistributed /\ env.world_size > 0) =>
        /\ \A i \in CallsOf("Config.make_distributed_shard") :
                calls[i].config.num_parts # env.world_size =>
                    (out.status = "raised" /\ out.exc = "ConfigError" /\ held = PyNone)
        /\ out.status = "returned" =>
                (out.ret.cls = "DistributedShard" /\ out.ret.config.num_parts = env.world_size)

C3_Witness ==
    /\ WantsDistributed
    /\ env.world_size = 2
    /\ op.config = CustomConfig(1)
    /\ Called("Config.make_distributed_shard")
    /\ out.exc = "ConfigError"

(* C4 as stated: in non-distributed mode, on a module that is not a PreTrainedModel
   and with sharded unspecified, the factory returns an instance of TensorParallel,
   also when the module has trainable parameters. *)
C4_AsStated ==
    (WantsThreaded /\ ~IsInstance(op.module, "PreTrainedModel") /\ op.sharded = "None"
        /\ out.status = "returned") =>
        IsInstance(out.ret, "TensorParallel")

(* C5: in non-distributed mode the factory called on a PreTrainedModel returns the
   adapter, which is a PreTrainedModel, for every value of sharded; the overlay,
   when applied, wraps the adapter's inner tensor_parallel and not the adapter. *)
C5_AdapterStaysPreTrained ==
    (WantsThreaded /\ IsInstance(op.module, "PreTrainedModel")) =>
        /\ out.status = "returned"
        /\ out.ret.cls = "TensorParallelPreTrainedModel"
        /\ IsInstance(out.ret, "PreTrainedModel")
        /\ held = out.ret
        /\ IF WantsSharded
           THEN /\ out.ret.tensor_parallel.cls = "Sharded"
                /\ out.ret.tensor_parallel.module.cls = "TensorParallel"
                /\ out.ret.tensor_parallel.sharded_param_names = op.sharded_param_names
           ELSE out.ret.tensor_parallel.cls = "TensorParallel"

C5_Witness ==
    /\ WantsThreaded
    /\ IsInstance(op.module, "PreTrainedModel")
    /\ op.sharded = "True"
    /\ out.ret.cls = "TensorParallelPreTrainedModel"
    /\ out.ret.tensor_parallel.cls = "Sharded"

\* The methods the adapter class defines itself
Overridden == ClassMethods("TensorParallelPreTrainedModel")

IsAdapterCall == op.name # "none" /\ op.name # "tensor_parallel"

(* C6 as stated: calling a method the adapter does not override raises
   AttributeError or NotImplementedError. *)
C6_AsStated ==
    (IsAdapterCall /\ op.name \notin Overridden) =>
        (out.status = "raised" /\ out.exc \in {"AttributeError", "NotImplementedError"})

(* C6 amended: a method the adapter does not override resolves through inheritance
   to the implementation of PreTrainedModel or of nn.Module (from_pretrained,
   parameters, float, to) without touching a shard; only a name that no class of the
   hierarchy defines raises AttributeError. *)
C6_InheritedMethodsResolve ==
    (IsAdapterCall /\ op.name \notin Overridden) =>
        /\ calls = <<>>
        /\ op.name = "from_pretrained" =>
                (out.status = "returned" /\ out.ret.impl = "PreTrainedModel")
        /\ op.name \in {"parameters", "float", "to"} =>
                (out.status = "returned" /\ out.ret.impl = "nn.Module")
        /\ op.name = "no_such_method" =>
                (out.status = "raised" /\ out.exc = "AttributeError")

C6_Witness ==
    /\ IsAdapterCall
    /\ op.name = "from_pretrained"
    /\ out.status = "returned"
    /\ out.ret.impl = "PreTrainedModel"

\* The shards of the adapter the caller holds
HeldShards == ModuleShards(held.tensor_parallel)

(* C7: _reorder_cache(past, beam_idx) invokes the reorder on the shards in
   shard-index order, each once, each with the caller's past and beam_idx, so each
   shard reorders the caller's past by beam_idx and none works on another shard's
   result; when the call returns, every shard has been invoked. *)
C7_ReorderBroadcast ==
    op.name = "_reorder_cache" =>
        /\ Len(calls) <= Len(HeldShards)
        /\ \A k \in 1..Len(calls) :
                /\ calls[k].fn = "_reorder_cache"
                /\ calls[k].shard = k - 1
                /\ calls[k].past = op.past
                /\ calls[k].beam_idx = op.beam_idx
                /\ \A i \in 1..Len(op.beam_idx) :
                        calls[k].result[i] = op.past[op.beam_idx[i] + 1]
        /\ out.status = "returned" => Len(calls) = Len(HeldShards)

C7_Witness ==
    /\ op.name = "_reorder_cache"
    /\ out.status = "returned"
    /\ Len(HeldShards) = 2
    /\ Len(calls) = 2
    /\ op.beam_idx = <<1, 0>>

DelegatedToShardZero == {"_validate_model_class", "_validate_model_kwargs", "prepare_inputs_for_generation"}

(* C8: _validate_model_class, _validate_model_kwargs and
   prepare_inputs_for_generation each make exactly one call, of the same-named
   method of shard 0 with the caller's arguments unchanged, return that call's
   result, and touch no shard of index above 0. *)
C8_DelegatedToShardZero ==
    op.name \in DelegatedToShardZero =>
        /\ Len(calls) = 1
        /\ calls[1].fn = op.name
        /\ calls[1].shard = 0
        /\ calls[1].args = op.args
        /\ out.status = "returned" =>
                out.ret = [cls |-> "ShardResult", shard |-> 0, method |-> op.name, args |-> op.args]

C8_Witness ==
    /\ op.name = "prepare_inputs_for_generation"
    /\ Len(HeldShards) = 2
    /\ out.status = "returned"
    /\ out.ret.shard = 0
    /\ out.ret.args = <<"input_ids", "past">>

ThreadedConstructors == {"TensorParallel", "TensorParallelPreTrainedModel", "Sharded"}
DistributedConstructors == {"get_world_size", "Config.get_default_config", "Config.make_distributed_shard"}

(* C9: Process-Parallel mode is used exactly when distributed=True was passed, or
   distributed was unspecified and a process group is initialized; distributed=False
   selects Thread-Parallel mode even with a process group; one construction path
   runs per call, never both. *)
C9_ModeSelection ==
    IsFactoryCall =>
        /\ out.branch = (IF WantsDistributed THEN "distributed" ELSE "threaded")
        /\ WantsDistributed =>
                /\ \A i \in 1..Len(calls) : calls[i].fn \notin ThreadedConstructors
                /\ out.status = "returned" => out.ret.cls = "DistributedShard"
        /\ WantsThreaded =>
                /\ \A i \in 1..Len(calls) : calls[i].fn \notin DistributedConstructors
                /\ Cardinality(CallsOf("TensorParallel") \cup CallsOf("TensorParallelPreTrainedModel")) = 1
                /\ out.status = "returned"
                /\ out.ret.cls \in {"TensorParallel", "Sharded", "TensorParallelPreTrainedModel"}

C9_Witness ==
    /\ IsFactoryCall
    /\ op.distributed = "False"
    /\ env.world_size > 0
    /\ out.branch = "threaded"
    /\ out.ret.cls = "TensorParallel"

\* The Config stored in the object the factory returned
ConfigOf(obj) ==
    CASE obj.cls = "DistributedShard" -> obj.config
      [] obj.cls = "TensorParallel" -> obj.config
      [] obj.cls = "Sharded" -> obj.module.config
      [] obj.cls = "TensorParallelPreTrainedModel" ->
            IF obj.tensor_parallel.cls = "Sharded"
            THEN obj.tensor_parallel.module.config
            ELSE obj.tensor_parallel.config

ConstructionCalls ==
    CallsOf("Config.make_distributed_shard") \cup CallsOf("TensorParallel")
        \cup CallsOf("TensorParallelPreTrainedModel")

(* C10: with a caller-supplied Config the factory never calls
   Config.get_default_config, in either mode, and hands the caller's Config unchanged
   to the shard construction; a default Config is inferred only when config is None
   in Process-Parallel mode, and then for world-size many parts. *)
C10_CustomConfigBypassesInference ==
    IsFactoryCall =>
        /\ op.config.origin = "custom" =>
                /\ ~Called("Config.get_default_config")
                /\ \A i \in ConstructionCalls : calls[i].config = op.config
                /\ out.status = "returned" => ConfigOf(out.ret) = op.config
        /\ \A i \in CallsOf("Config.get_default_config") :
                /\ op.config = NoConfig
                /\ WantsDistributed
                /\ Len(calls[i].device_ids) = env.world_size
                /\ \A j \in CallsOf("Config.make_distributed_shard") :
                        calls[j].config.num_parts = env.world_size
        /\ (WantsThreaded /\ op.config = NoConfig) =>
                \A i \in ConstructionCalls : calls[i].config = NoConfig

C10_Witness ==
    /\ WantsDistributed
    /\ op.config = CustomConfig(2)
    /\ out.status = "returned"
    /\ out.ret.config = CustomConfig(2)
    /\ ~Called("Config.get_default_config")


====
